---- MODULE Spec2Model ----
(***************************************************************************)
(* Word completion of helix-term (handlers/completion/word.rs): the        *)
(* synchronous phase of `completion` (prefix location, visible-range       *)
(* collection, cancellation poll), the deferred word scan that builds the  *)
(* response, and `retain_valid_completions`.                               *)
(*                                                                         *)
(* Text is a sequence of characters over a five-letter alphabet; every     *)
(* grapheme cluster of that alphabet is one character.  Character offsets  *)
(* and line numbers are 0-based as in the source; text[i + 1] is the       *)
(* character at offset i.                                                  *)
(***************************************************************************)
EXTENDS Integers, Sequences, FiniteSets, TLC

VARIABLES
    docs,            \* DocumentId -> text of the open documents
    views,           \* editor.tree.views(): sequence of [doc, line, height]
    selection,       \* cursor offsets of the ranges of the current selection
    primary,         \* index of the primary range in selection
    trigger,         \* trigger.kind
    pc,              \* position of the request
    head,            \* cursor.head of move_prev_word_start
    edit_diff,       \* characters to erase before the inserted word
    vi,              \* number of views the collection loop has handled
    ranges,          \* DocumentId -> Vec<Range<usize>> (<< >>: no entry)
    polls,           \* number of calls of handle.is_canceled()
    canceled,        \* what handle.is_canceled() answered
    result,          \* "pending", "None", "Some" (a closure was returned)
    items,           \* the items of the response / of the menu
    crashed,         \* "no", or how building the items panicked
    offered          \* the menu's items before retain_valid_completions

vars == <<docs, views, selection, primary, trigger, pc, head, edit_diff, vi,
          ranges, polls, canceled, result, items, crashed, offered>>

(***************************************************************************)
(* Bounds of the model.                                                    *)
(***************************************************************************)
MaxTokens == 3        \* tokens of the edited document's text
MaxHeight == 2        \* inner height of a view, in lines
MaxCursors == 2       \* ranges of a multi-cursor selection
MaxRangeViews == 3    \* views of the range-collection specification
RangeLines == 4       \* lines of a document of that specification
MaxMenu == 3          \* items of a completion menu
MaxMenuTokens == 2    \* tokens of the text under a completion menu

Docs == {1, 2}

(***************************************************************************)
(* Characters.                                                             *)
(***************************************************************************)
NoChar == "none"

Code(c) ==
    CASE c = "\n" -> 10
      [] c = " " -> 32
      [] c = "." -> 46
      [] c = "a" -> 97
      [] c = "b" -> 98

char_is_word(c) == c \in {"a", "b"}

char_is_line_ending(c) == c = "\n"

is_whitespace(c) == c \in {" ", "\n"}

categorize_char(c) ==
    IF char_is_line_ending(c) THEN "Eol"
    ELSE IF is_whitespace(c) THEN "Whitespace"
    ELSE IF char_is_word(c) THEN "Word"
    ELSE "Punctuation"

is_word_boundary(a, b) == categorize_char(a) # categorize_char(b)

\* reached_target for NextWordEnd and PrevWordStart.
reached_target(prev_ch, next_ch) ==
    /\ is_word_boundary(prev_ch, next_ch)
    /\ (~is_whitespace(prev_ch) \/ char_is_line_ending(next_ch))

(***************************************************************************)
(* Rope.                                                                   *)
(***************************************************************************)
Min(a, b) == IF a < b THEN a ELSE b

Max(a, b) == IF a > b THEN a ELSE b

saturating_sub(a, b) == IF a > b THEN a - b ELSE 0

Slice(text, from, to) == SubSeq(text, from + 1, to)

len_lines(text) == Cardinality({i \in 1..Len(text) : text[i] = "\n"}) + 1

char_to_line(text, pos) ==
    Cardinality({i \in 1..Min(pos, Len(text)) : text[i] = "\n"})

line_to_char(text, line) ==
    IF line = 0 THEN 0
    ELSE IF line >= len_lines(text) THEN Len(text)
    ELSE CHOOSE p \in 1..Len(text) :
            /\ text[p] = "\n"
            /\ Cardinality({i \in 1..p : text[i] = "\n"}) = line

(***************************************************************************)
(* Line ranges of the views.                                               *)
(***************************************************************************)
range_overlaps(a, b) ==
    a[1] = b[1] \/ (a[2] > b[1] /\ b[2] > a[1])

range_union(a, b) == <<Min(a[1], b[1]), Max(a[2], b[2])>>

estimate_last_doc_line(text, view) ==
    saturating_sub(Min(view.line + view.height, len_lines(text)), 1)

ViewRange(text, view) == <<view.line, estimate_last_doc_line(text, view) + 1>>

RECURSIVE MergeFrom(_, _, _)
MergeFrom(rs, range, i) ==
    IF i > Len(rs) THEN Append(rs, range)
    ELSE IF range_overlaps(range, rs[i])
         THEN [rs EXCEPT ![i] = range_union(range, rs[i])]
         ELSE MergeFrom(rs, range, i + 1)

MergeInsert(rs, range) == MergeFrom(rs, range, 1)

RECURSIVE CollectFrom(_, _, _, _)
CollectFrom(dm, vs, rm, i) ==
    IF i > Len(vs) THEN rm
    ELSE CollectFrom(dm, vs,
            [rm EXCEPT ![vs[i].doc] =
                MergeInsert(rm[vs[i].doc], ViewRange(dm[vs[i].doc], vs[i]))],
            i + 1)

NoRanges == [d \in Docs |-> << >>]

CollectRanges(dm, vs) == CollectFrom(dm, vs, NoRanges, 1)

(***************************************************************************)
(* Word motions of helix_core::movement (word_move and range_to_target).   *)
(* A range is <<anchor, head>>.                                            *)
(***************************************************************************)
\* The character the motion's iterator yields next at offset h.
MotionNext(text, is_prev, h) ==
    IF is_prev
    THEN IF h > 0 THEN text[h] ELSE NoChar
    ELSE IF h < Len(text) THEN text[h + 1] ELSE NoChar

\* The character the iterator has just passed at offset h.
MotionPrev(text, is_prev, h) ==
    IF is_prev
    THEN IF h < Len(text) THEN text[h + 1] ELSE NoChar
    ELSE IF h > 0 THEN text[h] ELSE NoChar

Advance(is_prev, h) == IF is_prev THEN saturating_sub(h, 1) ELSE h + 1

RECURSIVE SkipNewlines(_, _, _)
SkipNewlines(text, is_prev, h) ==
    IF char_is_line_ending(MotionNext(text, is_prev, h))
    THEN SkipNewlines(text, is_prev, Advance(is_prev, h))
    ELSE h

RECURSIVE FindTarget(_, _, _, _, _, _)
FindTarget(text, is_prev, h, prev_ch, anchor, head_start) ==
    LET next_ch == MotionNext(text, is_prev, h) IN
    IF next_ch = NoChar THEN <<anchor, h>>
    ELSE LET hit == prev_ch = NoChar \/ reached_target(prev_ch, next_ch) IN
         IF hit /\ h # head_start THEN <<anchor, h>>
         ELSE FindTarget(text, is_prev, Advance(is_prev, h), next_ch,
                         IF hit THEN h ELSE anchor, head_start)

range_to_target(text, is_prev, origin) ==
    LET h1 == SkipNewlines(text, is_prev, origin[2])
        prev_ch == IF h1 # origin[2] THEN "\n"
                   ELSE MotionPrev(text, is_prev, origin[2])
        anchor == IF char_is_line_ending(prev_ch) THEN h1 ELSE origin[1]
    IN FindTarget(text, is_prev, h1, prev_ch, anchor, h1)

prev_grapheme_boundary(text, pos) == saturating_sub(pos, 1)

next_grapheme_boundary(text, pos) == Min(pos + 1, Len(text))

word_move(text, range, is_prev) ==
    IF (is_prev /\ range[2] = 0) \/ (~is_prev /\ range[2] = Len(text))
    THEN range
    ELSE LET start_range ==
                 IF is_prev
                 THEN IF range[1] < range[2]
                      THEN <<range[2], prev_grapheme_boundary(text, range[2])>>
                      ELSE <<next_grapheme_boundary(text, range[2]), range[2]>>
                 ELSE IF range[1] < range[2]
                      THEN <<prev_grapheme_boundary(text, range[2]), range[2]>>
                      ELSE <<range[2], next_grapheme_boundary(text, range[2])>>
         IN range_to_target(text, is_prev, start_range)

move_prev_word_start(text, range) == word_move(text, range, TRUE)

move_next_word_end(text, range) == word_move(text, range, FALSE)

Point(pos) == <<pos, pos>>

(***************************************************************************)
(* completion: trigger policy and prefix location.                         *)
(***************************************************************************)
Kinds == {"Manual", "Auto", "TriggerChar"}

MinWordLen(kind) == IF kind = "Manual" THEN 2 ELSE 8

\* graphemes().take(n).take_while(all word).count() of text[from..]
RECURSIVE WordRunFrom(_, _, _)
WordRunFrom(text, from, n) ==
    IF n = 0 \/ from >= Len(text) \/ ~char_is_word(text[from + 1]) THEN 0
    ELSE 1 + WordRunFrom(text, from + 1, n - 1)

\* graphemes_rev().take(n).take_while(all word).count() of text[..to]
RECURSIVE WordRunBefore(_, _, _)
WordRunBefore(text, to, n) ==
    IF n = 0 \/ to = 0 \/ ~char_is_word(text[to]) THEN 0
    ELSE 1 + WordRunBefore(text, to - 1, n - 1)

\* PrefixOk without the check of lines 73-83.
PrefixOkNoRunCheck(text, kind, pos, h) == h # pos

PrefixOk(text, kind, pos, h) ==
    /\ h # pos
    /\ (kind = "Manual" \/ WordRunFrom(text, h, MinWordLen(kind)) = MinWordLen(kind))

EditDiff(text, h, pos) ==
    LET prev_word == Slice(text, h, pos) IN
    IF is_whitespace(prev_word[saturating_sub(Len(prev_word), 1) + 1])
    THEN 0
    ELSE Len(prev_word)

(***************************************************************************)
(* completion: the deferred computation.                                   *)
(***************************************************************************)
RECURSIVE LexLess(_, _)
LexLess(s, t) ==
    IF t = << >> THEN FALSE
    ELSE IF s = << >> THEN TRUE
    ELSE IF Code(Head(s)) # Code(Head(t)) THEN Code(Head(s)) < Code(Head(t))
    ELSE LexLess(Tail(s), Tail(t))

\* A Vec::push in place of BTreeSet::insert.
BTreePush(words, w) == Append(words, w)

\* BTreeSet::insert on the set kept as its ascending sequence.
BTreeInsert(words, w) ==
    IF \E i \in 1..Len(words) : words[i] = w THEN words
    ELSE LET k == Cardinality({i \in 1..Len(words) : LexLess(words[i], w)})
         IN SubSeq(words, 1, k) \o <<w>> \o SubSeq(words, k + 1, Len(words))

\* chars_at(from).take_while(not word).count()
RECURSIVE NonWordRun(_, _)
NonWordRun(text, from) ==
    IF from >= Len(text) \/ char_is_word(text[from + 1]) THEN 0
    ELSE 1 + NonWordRun(text, from + 1)

\* Whether the word ending at the scan cursor is inserted, and its range.
WordRange(text, cursor) ==
    <<cursor[1] + NonWordRun(text, cursor[1]), cursor[2]>>

\* Qualifies with a run of one grapheme in place of min_word_len.
QualifiesOneChar(text, cursor, min_word_len) ==
    WordRunBefore(text, cursor[2], 1) = 1

Qualifies(text, cursor, min_word_len) ==
    WordRunBefore(text, cursor[2], min_word_len) = min_word_len

\* Excluded without the test of line 163.
ExcludedNever(typed_word_range, word_range) == FALSE

Excluded(typed_word_range, word_range) ==
    range_overlaps(typed_word_range, word_range)

RECURSIVE ScanLoop(_, _, _, _, _, _)
ScanLoop(text, cursor, end, min_word_len, typed, words) ==
    IF ~(cursor[2] < end) THEN words
    ELSE IF Qualifies(text, cursor, min_word_len)
    THEN LET word_range == WordRange(text, cursor) IN
         ScanLoop(text, move_next_word_end(text, word_range), end,
                  min_word_len, typed,
                  IF ~Excluded(typed, word_range)
                  THEN BTreeInsert(words, Slice(text, word_range[1], word_range[2]))
                  ELSE words)
    ELSE ScanLoop(text, move_next_word_end(text, cursor), end,
                  min_word_len, typed, words)

ScanStart(text, start) ==
    IF start < Len(text) /\ ~is_whitespace(text[start + 1])
    THEN LET cursor_word_end == move_next_word_end(text, Point(start)) IN
         IF cursor_word_end[1] = start THEN cursor_word_end ELSE Point(start)
    ELSE Point(start)

ScanRange(text, range, min_word_len, typed, words) ==
    LET start == line_to_char(text, range[1])
        end == line_to_char(text, range[2])
    IN ScanLoop(text, ScanStart(text, start), end, min_word_len, typed, words)

RECURSIVE ScanRanges(_, _, _, _, _, _)
ScanRanges(text, rs, i, min_word_len, typed, words) ==
    IF i > Len(rs) THEN words
    ELSE ScanRanges(text, rs, i + 1, min_word_len, typed,
                    ScanRange(text, rs[i], min_word_len, typed, words))

\* for (_doc_id, (text, ranges)) in ranges: ascending document ids.
ScanDocs(dm, rm, min_word_len, typed) ==
    ScanRanges(dm[2], rm[2], 1, min_word_len, typed,
               ScanRanges(dm[1], rm[1], 1, min_word_len, typed, << >>))

(***************************************************************************)
(* The edit of an item: Transaction::change_by_selection.                  *)
(***************************************************************************)
UsizeModulus == 2 ^ 16

wrapping_sub(a, b) == (a - b + UsizeModulus) % UsizeModulus

\* (cursor - edit_diff, cursor) of every range of the selection.
Changes(sel, diff) ==
    [i \in 1..Len(sel) |-> <<wrapping_sub(sel[i], diff), sel[i]>>]

Underflows(sel, diff) == \E i \in 1..Len(sel) : sel[i] < diff

\* The debug assertions of Transaction::change: ordered, not overlapping.
ChangesOrdered(changes) ==
    \A i \in 1..Len(changes) :
        /\ changes[i][1] <= changes[i][2]
        /\ (i > 1 => changes[i - 1][2] <= changes[i][1])

Item(word, sel, diff) ==
    [label |-> word, kind |-> "word", variant |-> "Other",
     changes |-> Changes(sel, diff)]

BuildItems(words, sel, diff) ==
    [i \in 1..Len(words) |-> Item(words[i], sel, diff)]

\* How building the items ends in a build with overflow checks and debug
\* assertions: the subtraction of line 177 overflows, or an assertion of
\* Transaction::change fails.
PanicOf(words, sel, diff) ==
    IF words = << >> THEN "no"
    ELSE IF Underflows(sel, diff) THEN "overflow"
    ELSE IF ~ChangesOrdered(Changes(sel, diff)) THEN "assert"
    ELSE "no"

(***************************************************************************)
(* retain_valid_completions.                                               *)
(***************************************************************************)
COMPLETION_KIND == "word"

IsWordItem(item) == item.variant = "Other" /\ item.kind = COMPLETION_KIND

\* RetainValid without the early return of lines 29-31.
RetainValidAnyTrigger(kind, text, cursor, its) ==
    IF is_whitespace(text[saturating_sub(cursor, 1) + 1])
    THEN SelectSeq(its, LAMBDA item : ~IsWordItem(item))
    ELSE its

RetainValid(kind, text, cursor, its) ==
    IF kind = "Manual" THEN its
    ELSE IF is_whitespace(text[saturating_sub(cursor, 1) + 1])
    THEN SelectSeq(its, LAMBDA item : ~IsWordItem(item))
    ELSE its

(***************************************************************************)
(* Inputs.                                                                 *)
(***************************************************************************)
LongWord == <<"a", "a", "a", "a", "a", "a", "a", "a">>

Tokens == {<<"a">>, <<"a", "b">>, LongWord, <<" ">>, <<"\n">>, <<".">>}

RECURSIVE Flatten(_)
Flatten(ts) == IF ts = << >> THEN << >> ELSE Head(ts) \o Flatten(Tail(ts))

\* The tokens of the texts that are shown in several views.
ScanTokens == {<<"a", "b">>, LongWord, <<" ">>, <<"\n">>}

Texts(tokens, n) ==
    {Flatten(ts) : ts \in UNION {[1..k -> tokens] : k \in 1..n}}

\* The text of the document that is not being edited.
OtherText == <<"a", "b", " ", " ", " ">> \o LongWord \o <<".">>

\* The views a document can be shown in.  A view taller than the rest of the
\* document shows the same lines whatever its height: MaxHeight stands for it.
ViewsOf(text, d) ==
    {v \in [doc : {d}, line : 0..(len_lines(text) - 1), height : 1..MaxHeight] :
        v.line + v.height <= len_lines(text) \/ v.height = MaxHeight}

\* The focused view keeps the primary cursor's line on screen.
FocusedViews(text, pos) ==
    {v \in ViewsOf(text, 1) :
        /\ v.line <= char_to_line(text, pos)
        /\ char_to_line(text, pos) < v.line + v.height}

\* Selections: ascending cursor offsets.
Selections(text, n) ==
    {sel \in UNION {[1..k -> 0..Len(text)] : k \in 1..n} :
        \A i \in 1..(Len(sel) - 1) : sel[i] < sel[i + 1]}

(***************************************************************************)
(* completion, step by step.                                               *)
(***************************************************************************)
Pos == selection[primary]

TypedWordRange == <<head, Pos>>

\* Lines 56-94: minimum length, backward word search, early returns.
Prefix ==
    /\ pc = "start"
    /\ LET text == docs[1]
           cursor == move_prev_word_start(text, Point(Pos))
       IN IF PrefixOk(text, trigger, Pos, cursor[2])
          THEN /\ head' = cursor[2]
               /\ edit_diff' = EditDiff(text, cursor[2], Pos)
               /\ pc' = "collect"
               /\ UNCHANGED result
          ELSE /\ pc' = "returned"
               /\ result' = "None"
               /\ UNCHANGED <<head, edit_diff>>
    /\ UNCHANGED <<docs, views, selection, primary, trigger, vi, ranges,
                   polls, canceled, items, crashed, offered>>

\* Lines 97-123: one iteration of the loop over the views.
InsertView ==
    /\ pc = "collect"
    /\ vi < Len(views)
    /\ LET view == views[vi + 1] IN
       ranges' = [ranges EXCEPT ![view.doc] =
                     MergeInsert(ranges[view.doc], ViewRange(docs[view.doc], view))]
    /\ vi' = vi + 1
    /\ UNCHANGED <<docs, views, selection, primary, trigger, pc, head,
                   edit_diff, polls, canceled, result, items, crashed, offered>>

\* Lines 96-123: the whole loop over the views.
Collect ==
    /\ pc = "collect"
    /\ vi = 0
    /\ ranges' = CollectRanges(docs, views)
    /\ vi' = Len(views)
    /\ pc' = "poll"
    /\ UNCHANGED <<docs, views, selection, primary, trigger, head, edit_diff,
                   polls, canceled, result, items, crashed, offered>>

\* Poll without the early return of lines 125-127.
PollIgnoringCancel ==
    /\ pc = "poll"
    /\ \E is_canceled \in BOOLEAN :
        /\ canceled' = is_canceled
        /\ result' = "Some"
    /\ polls' = polls + 1
    /\ pc' = "returned"
    /\ UNCHANGED <<docs, views, selection, primary, trigger, head, edit_diff,
                   vi, ranges, items, crashed, offered>>

\* Lines 125-129 and 204: the poll of the handle and the return.
Poll ==
    /\ pc = "poll"
    /\ \E is_canceled \in BOOLEAN :
        /\ canceled' = is_canceled
        /\ result' = IF is_canceled THEN "None" ELSE "Some"
    /\ polls' = polls + 1
    /\ pc' = "returned"
    /\ UNCHANGED <<docs, views, selection, primary, trigger, head, edit_diff,
                   vi, ranges, items, crashed, offered>>

\* Lines 129-202: the closure, run by the caller.  A build with overflow checks
\* and debug assertions panics where a build without them wraps.
RunFuture ==
    /\ pc = "returned"
    /\ result = "Some"
    /\ LET words == ScanDocs(docs, ranges, MinWordLen(trigger), TypedWordRange)
       IN \E checked \in BOOLEAN :
            IF checked /\ PanicOf(words, selection, edit_diff) # "no"
            THEN crashed' = PanicOf(words, selection, edit_diff)
                 /\ UNCHANGED items
            ELSE items' = BuildItems(words, selection, edit_diff)
                 /\ UNCHANGED crashed
    /\ pc' = "done"
    /\ UNCHANGED <<docs, views, selection, primary, trigger, head, edit_diff,
                   vi, ranges, polls, canceled, result, offered>>

Next == Prefix \/ Collect \/ Poll \/ RunFuture

StartOfCall ==
    /\ head = 0
    /\ edit_diff = 0
    /\ vi = 0
    /\ ranges = NoRanges
    /\ polls = 0
    /\ canceled = FALSE
    /\ result = "pending"
    /\ items = << >>
    /\ crashed = "no"
    /\ offered = << >>

\* One cursor; the focused view and at most one more view, on either document.
Init ==
    /\ docs \in {[d \in Docs |-> IF d = 1 THEN t ELSE OtherText] :
                    t \in Texts(ScanTokens, MaxTokens)}
    /\ selection \in Selections(docs[1], 1)
    /\ primary = 1
    /\ views \in {<<v>> : v \in FocusedViews(docs[1], selection[1])}
             \cup {<<v, w>> : v \in FocusedViews(docs[1], selection[1]),
                              w \in ViewsOf(docs[1], 1) \cup ViewsOf(docs[2], 2)}
    /\ trigger \in {"Manual", "Auto"}
    /\ pc = "start"
    /\ StartOfCall

Spec == Init /\ [][Next]_vars

\* Every trigger kind; one cursor; the focused view alone.
InitControl ==
    /\ docs \in {[d \in Docs |-> IF d = 1 THEN t ELSE OtherText] :
                    t \in Texts(Tokens, MaxTokens)}
    /\ selection \in Selections(docs[1], 1)
    /\ primary = 1
    /\ views \in {<<v>> : v \in FocusedViews(docs[1], selection[1])}
    /\ trigger \in Kinds
    /\ pc = "start"
    /\ StartOfCall

SpecControl == InitControl /\ [][Next]_vars

\* Multi-cursor selections; the focused view alone.
InitMulti ==
    /\ docs \in {[d \in Docs |-> IF d = 1 THEN t ELSE OtherText] :
                    t \in Texts(Tokens, MaxTokens)}
    /\ selection \in Selections(docs[1], MaxCursors)
    /\ primary \in 1..Len(selection)
    /\ views \in {<<v>> : v \in FocusedViews(docs[1], selection[primary])}
    /\ trigger \in {"Manual", "Auto"}
    /\ pc = "start"
    /\ StartOfCall

SpecMulti == InitMulti /\ [][Next]_vars

(***************************************************************************)
(* The loop over the views alone, one insertion at a time, on documents of *)
(* RangeLines lines: the state of a call that has located the prefix "ab". *)
(***************************************************************************)
RECURSIVE Newlines(_)
Newlines(n) == IF n = 0 THEN << >> ELSE <<"\n">> \o Newlines(n - 1)

LinesText == <<"a", "b">> \o Newlines(RangeLines - 1)

AnyViews(text, d) ==
    {v \in [doc : {d}, line : 0..(len_lines(text) - 1),
             height : 1..len_lines(text)] :
        v.line + v.height <= len_lines(text)}

InitRanges ==
    /\ docs = [d \in Docs |-> LinesText]
    /\ selection = <<2>>
    /\ primary = 1
    /\ views \in UNION {[1..k -> AnyViews(LinesText, 1) \cup AnyViews(LinesText, 2)] :
                            k \in 1..MaxRangeViews}
    /\ trigger = "Manual"
    /\ pc = "collect"
    /\ head = 0
    /\ edit_diff = 2
    /\ vi = 0
    /\ ranges = NoRanges
    /\ polls = 0
    /\ canceled = FALSE
    /\ result = "pending"
    /\ items = << >>
    /\ crashed = "no"
    /\ offered = << >>

NextRanges == InsertView

SpecRanges == InitRanges /\ [][NextRanges]_vars

(***************************************************************************)
(* retain_valid_completions on a menu of items.                            *)
(***************************************************************************)
MenuItems ==
    {[variant |-> "Other", kind |-> "word"],
     [variant |-> "Other", kind |-> "file"],
     [variant |-> "Lsp", kind |-> "lsp"]}

Filter ==
    /\ pc = "menu"
    /\ items' = RetainValid(trigger, docs[1], Pos, items)
    /\ pc' = "filtered"
    /\ UNCHANGED <<docs, views, selection, primary, trigger, head, edit_diff,
                   vi, ranges, polls, canceled, result, crashed, offered>>

InitFilter ==
    /\ docs \in {[d \in Docs |-> IF d = 1 THEN t ELSE OtherText] :
                    t \in Texts(Tokens, MaxMenuTokens)}
    /\ selection \in Selections(docs[1], 1)
    /\ primary = 1
    /\ views \in {<<v>> : v \in FocusedViews(docs[1], selection[1])}
    /\ trigger \in Kinds
    /\ pc = "menu"
    /\ items \in UNION {[1..k -> MenuItems] : k \in 0..MaxMenu}
    /\ offered = items
    /\ head = 0
    /\ edit_diff = 0
    /\ vi = 0
    /\ ranges = NoRanges
    /\ polls = 0
    /\ canceled = FALSE
    /\ result = "pending"
    /\ crashed = "no"

NextFilter == Filter

SpecFilter == InitFilter /\ [][NextFilter]_vars

(***************************************************************************)
(* Properties of the range collection (SpecRanges).                        *)
(***************************************************************************)
RangeSet(rs) == {rs[i] : i \in 1..Len(rs)}

Perms(n) == {f \in [1..n -> 1..n] : \A i, j \in 1..n : f[i] = f[j] => i = j}

Permuted(vs, f) == [i \in 1..Len(vs) |-> vs[f[i]]]

\* C1: after any sequence of insertions no two distinct ranges of a
\* document's list satisfy range_overlaps.
C1_NoOverlappingRanges ==
    \A d \in Docs : \A i, j \in 1..Len(ranges[d]) :
        i # j => ~range_overlaps(ranges[d][i], ranges[d][j])

\* C2: inserting the views' ranges in any order yields the same set of
\* ranges for every document.
C2_OrderIndependent ==
    vi = Len(views) =>
        \A f \in Perms(Len(views)) : \A d \in Docs :
            RangeSet(CollectRanges(docs, Permuted(views, f))[d]) = RangeSet(ranges[d])

(***************************************************************************)
(* Properties of the call (SpecControl).                                   *)
(***************************************************************************)
HeadFound == move_prev_word_start(docs[1], Point(Pos))[2]

\* The text from the head found does not begin with n word characters.
RunShortAt(h, n) ==
    ~(/\ h + n <= Len(docs[1])
      /\ \A i \in 1..n : docs[1][h + i] \in {"a", "b"})

RunShort(n) == LET h == HeadFound IN RunShortAt(h, n)

PassedPrefix ==
    LET h == HeadFound IN
    /\ h # Pos
    /\ (trigger = "Manual" \/ ~RunShortAt(h, 8))

\* C3 as stated: every call polls the handle exactly once.
C3_EveryCallPollsOnce ==
    pc \in {"returned", "done"} => polls = 1

\* C3 as amended: a call that returns at a prefix check never polls; every
\* other call polls exactly once, after the ranges of all views are collected
\* and before it returns; a canceled poll returns nothing and no closure; the
\* closure never polls.
C3_PollDiscipline ==
    /\ pc \in {"start", "collect", "poll"} => polls = 0 /\ result = "pending"
    /\ pc = "poll" => ranges = CollectRanges(docs, views)
    /\ pc \in {"returned", "done"} => polls = (IF PassedPrefix THEN 1 ELSE 0)
    /\ (pc = "returned" /\ ~PassedPrefix) => result = "None"
    /\ (polls = 1 /\ canceled) => result = "None" /\ pc = "returned" /\ items = << >>
    /\ pc = "done" => result = "Some" /\ ~canceled

C3_CanceledAtPoll ==
    pc = "returned" /\ polls = 1 /\ canceled /\ result = "None"

\* C4 as stated: for a manual (2) or automatic (8) trigger, a short run at
\* the head found makes the call return nothing.
C4_ShortRunReturnsNothing ==
    RunShort(IF trigger = "Manual" THEN 2 ELSE 8) => result # "Some"

\* C4 as amended: for a trigger that is not manual, a run of fewer than 8
\* word characters at the head found makes the call return nothing, before
\* any range is collected.
C4_AutoShortRunReturnsNothing ==
    (trigger # "Manual" /\ RunShort(8)) =>
        /\ pc \in {"start", "returned"}
        /\ pc = "returned" => result = "None"
        /\ ranges = NoRanges

C4_AutoShortRunSeen ==
    /\ trigger = "Auto"
    /\ RunShort(8)
    /\ HeadFound # Pos
    /\ pc = "returned"
    /\ result = "None"

\* C8: every item's label has at least 2 (manual) or 8 (other triggers)
\* grapheme clusters and consists of word characters only.
C8_ItemsAreLongWords ==
    pc = "done" =>
        \A k \in 1..Len(items) :
            /\ Len(items[k].label) >= (IF trigger = "Manual" THEN 2 ELSE 8)
            /\ \A i \in 1..Len(items[k].label) : items[k].label[i] \in {"a", "b"}

C8_AutoItemSeen ==
    pc = "done" /\ trigger # "Manual" /\ items # << >>

(***************************************************************************)
(* Properties of the response (Spec).                                      *)
(***************************************************************************)
\* C5 as stated: no item's label equals the word at the typed-word range.
C5_TypedWordNeverSuggested ==
    pc = "done" =>
        \A k \in 1..Len(items) : items[k].label # Slice(docs[1], head, Pos)

\* A word range of document d inside one of its collected ranges that does
\* not overlap the typed-word range and holds the label.
SourceOf(label, d) ==
    \E n \in 1..Len(ranges[d]) :
        \E a \in 0..Len(docs[d]) : \E h \in (a + 1)..Len(docs[d]) :
            /\ line_to_char(docs[d], ranges[d][n][1]) <= a
            /\ h < line_to_char(docs[d], ranges[d][n][2])
            /\ Slice(docs[d], a, h) = label
            /\ ~(head = a \/ (Pos > a /\ h > head))

\* C5 as amended: every item's label is the text of a word range, inside a
\* visible range of an open document, whose character offsets do not overlap
\* the typed-word range; text equal to the typed word is suggested when it
\* occurs at such a range.
C5_ItemsComeFromOtherRanges ==
    pc = "done" =>
        \A k \in 1..Len(items) : \E d \in Docs : SourceOf(items[k].label, d)

C5_TypedTextSuggested ==
    /\ pc = "done"
    /\ \E k \in 1..Len(items) : items[k].label = Slice(docs[1], head, Pos)

\* C9: the items are in strictly increasing lexicographic order of their
\* labels, so a word found several times is one item.
C9_StrictlyIncreasingLabels ==
    pc = "done" =>
        \A k \in 1..(Len(items) - 1) : LexLess(items[k].label, items[k + 1].label)

C9_WordInBothDocuments ==
    /\ pc = "done"
    /\ Len(items) >= 2
    /\ \E k \in 1..Len(items) :
        SourceOf(items[k].label, 1) /\ SourceOf(items[k].label, 2)

(***************************************************************************)
(* Properties of the edits (SpecMulti).                                    *)
(***************************************************************************)
\* C6: every item's edit replaces exactly (c - edit_diff)..c at every cursor
\* c of the selection and nothing else.
C6_EditReplacesTypedRange ==
    pc = "done" =>
        /\ crashed = "no"
        /\ \A k \in 1..Len(items) :
            /\ Len(items[k].changes) = Len(selection)
            /\ \A i \in 1..Len(selection) :
                /\ selection[i] - edit_diff >= 0
                /\ items[k].changes[i] = <<selection[i] - edit_diff, selection[i]>>
                /\ (i > 1 => selection[i - 1] <= selection[i] - edit_diff)

\* C10: c - edit_diff is never computed below 0, for any cursor c of the
\* selection, and building the items never crashes on it.
C10_NoUnderflow ==
    pc = "done" =>
        /\ crashed # "overflow"
        /\ \A k \in 1..Len(items) : \A i \in 1..Len(items[k].changes) :
            items[k].changes[i][1] <= items[k].changes[i][2]

(***************************************************************************)
(* Properties of retain_valid_completions (SpecFilter).                    *)
(***************************************************************************)
WhitespaceLeftOfCursor ==
    Pos >= 1 /\ docs[1][Pos] \in {" ", "\n"}

\* C7: for a trigger that is not manual with whitespace left of the cursor,
\* no item tagged "word" remains and the other items remain in their order;
\* for a manual trigger the list is unchanged.
C7_StalenessFilter ==
    pc = "filtered" =>
        /\ (trigger # "Manual" /\ WhitespaceLeftOfCursor) =>
              items = SelectSeq(offered, LAMBDA item : item.kind # "word")
        /\ trigger = "Manual" => items = offered

C7_WordItemsDropped ==
    /\ pc = "filtered"
    /\ trigger = "Auto"
    /\ WhitespaceLeftOfCursor
    /\ Len(items) = 2
    /\ Len(offered) = 3
    /\ items[1].variant # items[2].variant

====
